---------------------------- MODULE Spec2Model ----------------------------
(***************************************************************************)
(* Model of bevy_registry: the insert-only Registry (src/src/lib.rs), its  *)
(* Index Node Store InsertMap (src/src/map.rs), Entry (src/src/entry.rs)   *)
(* and the GlobalKey / LocalKey types with the serde wire format of        *)
(* GlobalKey (src/src/key.rs).                                             *)
(*                                                                         *)
(* Rust vectors are 0-based, TLA+ sequences 1-based: element i of a Vec is *)
(* s[i + 1].  Option<T> is a sequence of length at most one.               *)
(*                                                                         *)
(* Integer widths are scaled: a byte has ByteBits bits, so u8, u16, u32    *)
(* and u64 have 1, 2, 4 and 8 times ByteBits bits.  Every cast of the code *)
(* is a reduction modulo the width it casts to.                            *)
(***************************************************************************)
EXTENDS Integers, Sequences, FiniteSets, TLC

\* Bits per byte of the scaled machine (8 on the real one).
ByteBits == 1

\* Identifiers are numbered 1..NumIdents; each stands for one distinct string.
NumIdents == 5

\* The number of keys inserted into an InsertMap used on its own.
NumKeys == 4

VARIABLES
    items,    \* Registry::items, the Vec<Entry<I>>
    table,    \* Registry::table, the InsertMap
    result,   \* the last call of the interface and what it returned
    handed,   \* what the caller holds of every Entry a successful add returned,
              \* in call order: its identity, and the payload it passed to add
              \* or last wrote through a mutable reference to that Entry
    key,      \* a GlobalKey held by the caller (Option)
    wire,     \* the serialized form last written by GlobalKey::serialize (Option)
    inserted  \* the (key, val) pairs of the InsertMap::insert calls that returned
              \* None on an InsertMap used on its own, in call order

vars == <<items, table, result, handed, key, wire, inserted>>

-----------------------------------------------------------------------------
(* Integer types *)

U8Mod  == 2 ^ ByteBits
U16Mod == 2 ^ (2 * ByteBits)
U32Mod == 2 ^ (4 * ByteBits)
U64Mod == 2 ^ (8 * ByteBits)

\* u16::MAX
U16_MAX == U16Mod - 1

\* `x as u16`, `x as u64`, `x as usize`
\* A narrowing to 8 bits in the place of the one to 16 bits.
AsU16_narrow(x) == x % U8Mod

AsU16(x) == x % U16Mod
AsU64(x) == x % U64Mod
AsUsize(x) == x

None == << >>
Some(x) == << x >>

\* The payload type I of Registry<I>, instantiated as bool.
Item == BOOLEAN

Idents == 1 .. NumIdents

-----------------------------------------------------------------------------
(* Hashing *)

\* const HASH_SEED, reduced to the low byte of the real constant.
HASH_SEED == 21

\* xxhash_rust::xxh64::xxh64(ident.as_bytes(), seed): the external hash, a
\* fixed function of the bytes and the seed into u64.  It is not injective:
\* identifiers that agree modulo 4 collide, and its values are not ordered
\* like the identifiers.
xxh64(bytes, seed) == AsU64((bytes % 4) * 101 + seed)

-----------------------------------------------------------------------------
(* src/src/key.rs *)

LocalKey(index) == [index |-> index]
GlobalKey(hash) == [hash |-> hash]

\* GlobalKey::new
GlobalKey_new(ident) == GlobalKey(xxh64(ident, HASH_SEED))

-----------------------------------------------------------------------------
(* src/src/map.rs *)

Node(k, v) == [key |-> k, val |-> v, gt |-> None, lt |-> None]

\* Ordering of key.cmp(&other)
cmp(a, b) == IF a > b THEN "Greater" ELSE IF a < b THEN "Less" ELSE "Equal"

\* The loop of InsertMap::insert from node i; index is the length of the
\* store at the call.
RECURSIVE insert_loop(_, _, _, _)
insert_loop(entries, k, v, i) ==
    LET index == Len(entries)
        ord == cmp(k, entries[i + 1].key)
    IN  IF ord = "Equal"
        THEN [entries |-> entries, ret |-> Some(AsU16(i))]
        ELSE LET next == IF ord = "Greater" THEN entries[i + 1].gt
                                            ELSE entries[i + 1].lt
                 linked == IF ord = "Greater"
                           THEN [entries EXCEPT ![i + 1].gt = Some(AsU16(index))]
                           ELSE [entries EXCEPT ![i + 1].lt = Some(AsU16(index))]
             IN  IF next = None
                 THEN [entries |-> Append(linked, Node(k, v)), ret |-> None]
                 ELSE insert_loop(entries, k, v, AsUsize(next[1]))

\* insert with the new node pushed before the descent, so that a collision
\* leaves it behind.
insert_eager(map, k, v) ==
    IF Len(map.entries) = 0
    THEN [entries |-> Append(map.entries, Node(k, v)), ret |-> None]
    ELSE LET r == insert_loop(map.entries, k, v, 0)
         IN  IF r.ret = None THEN r
             ELSE [entries |-> Append(map.entries, Node(k, v)), ret |-> r.ret]

\* insert that takes an equal key for a smaller one.
RECURSIVE insert_loop_no_equal(_, _, _, _)
insert_loop_no_equal(entries, k, v, i) ==
    LET index == Len(entries)
        greater == k > entries[i + 1].key
        next == IF greater THEN entries[i + 1].gt ELSE entries[i + 1].lt
        linked == IF greater
                  THEN [entries EXCEPT ![i + 1].gt = Some(AsU16(index))]
                  ELSE [entries EXCEPT ![i + 1].lt = Some(AsU16(index))]
    IN  IF next = None
        THEN [entries |-> Append(linked, Node(k, v)), ret |-> None]
        ELSE insert_loop_no_equal(entries, k, v, AsUsize(next[1]))

insert_no_equal(map, k, v) ==
    IF Len(map.entries) = 0
    THEN [entries |-> Append(map.entries, Node(k, v)), ret |-> None]
    ELSE insert_loop_no_equal(map.entries, k, v, 0)

\* insert that reports the root as the node in the way of every collision.
insert_ret_root(map, k, v) ==
    IF Len(map.entries) = 0
    THEN [entries |-> Append(map.entries, Node(k, v)), ret |-> None]
    ELSE LET r == insert_loop(map.entries, k, v, 0)
         IN  IF r.ret = None THEN r ELSE [entries |-> r.entries, ret |-> Some(0)]

\* insert that links the parent to the last node of the store, not to the
\* node it is about to push.
RECURSIVE insert_loop_link_back(_, _, _, _)
insert_loop_link_back(entries, k, v, i) ==
    LET index == Len(entries)
        ord == cmp(k, entries[i + 1].key)
    IN  IF ord = "Equal"
        THEN [entries |-> entries, ret |-> Some(AsU16(i))]
        ELSE LET next == IF ord = "Greater" THEN entries[i + 1].gt
                                            ELSE entries[i + 1].lt
                 linked == IF ord = "Greater"
                           THEN [entries EXCEPT ![i + 1].gt = Some(AsU16(index - 1))]
                           ELSE [entries EXCEPT ![i + 1].lt = Some(AsU16(index - 1))]
             IN  IF next = None
                 THEN [entries |-> Append(linked, Node(k, v)), ret |-> None]
                 ELSE insert_loop_link_back(entries, k, v, AsUsize(next[1]))

insert_link_back(map, k, v) ==
    IF Len(map.entries) = 0
    THEN [entries |-> Append(map.entries, Node(k, v)), ret |-> None]
    ELSE insert_loop_link_back(map.entries, k, v, 0)

\* insert that sets both child links of the parent to the new node.
RECURSIVE insert_loop_link_both(_, _, _, _)
insert_loop_link_both(entries, k, v, i) ==
    LET index == Len(entries)
        ord == cmp(k, entries[i + 1].key)
    IN  IF ord = "Equal"
        THEN [entries |-> entries, ret |-> Some(AsU16(i))]
        ELSE LET next == IF ord = "Greater" THEN entries[i + 1].gt
                                            ELSE entries[i + 1].lt
                 linked == [entries EXCEPT ![i + 1].gt = Some(AsU16(index)),
                                           ![i + 1].lt = Some(AsU16(index))]
             IN  IF next = None
                 THEN [entries |-> Append(linked, Node(k, v)), ret |-> None]
                 ELSE insert_loop_link_both(entries, k, v, AsUsize(next[1]))

insert_link_both(map, k, v) ==
    IF Len(map.entries) = 0
    THEN [entries |-> Append(map.entries, Node(k, v)), ret |-> None]
    ELSE insert_loop_link_both(map.entries, k, v, 0)

\* insert that hangs a greater key on the 'less' link and a smaller key on
\* the 'greater' link of the node where the descent ends.
RECURSIVE insert_loop_cross(_, _, _, _)
insert_loop_cross(entries, k, v, i) ==
    LET index == Len(entries)
        ord == cmp(k, entries[i + 1].key)
    IN  IF ord = "Equal"
        THEN [entries |-> entries, ret |-> Some(AsU16(i))]
        ELSE LET next == IF ord = "Greater" THEN entries[i + 1].gt
                                            ELSE entries[i + 1].lt
                 other == IF ord = "Greater" THEN entries[i + 1].lt
                                             ELSE entries[i + 1].gt
                 linked == IF ord = "Greater"
                           THEN [entries EXCEPT ![i + 1].lt = Some(AsU16(index))]
                           ELSE [entries EXCEPT ![i + 1].gt = Some(AsU16(index))]
             IN  IF next = None
                 THEN IF other = None
                      THEN [entries |-> Append(linked, Node(k, v)), ret |-> None]
                      ELSE [entries |-> entries, ret |-> Some(AsU16(i))]
                 ELSE insert_loop_cross(entries, k, v, AsUsize(next[1]))

insert_cross(map, k, v) ==
    IF Len(map.entries) = 0
    THEN [entries |-> Append(map.entries, Node(k, v)), ret |-> None]
    ELSE insert_loop_cross(map.entries, k, v, 0)

\* insert that stores the position of the new node as its slot value.
insert_store_index(map, k, v) ==
    IF Len(map.entries) = 0
    THEN [entries |-> Append(map.entries, Node(k, 0)), ret |-> None]
    ELSE insert_loop(map.entries, k, AsU16(Len(map.entries)), 0)

\* InsertMap::insert: the store after the call and the returned Option<u16>.
insert(map, k, v) ==
    IF Len(map.entries) = 0
    THEN [entries |-> Append(map.entries, Node(k, v)), ret |-> None]
    ELSE insert_loop(map.entries, k, v, 0)

\* The loop of InsertMap::get from node i.  Indexing past the end of the
\* Vec panics; `?` on an empty child link returns None.
RECURSIVE get_loop(_, _, _)
get_loop(entries, k, i) ==
    IF i >= Len(entries)
    THEN [panicked |-> TRUE, ret |-> None]
    ELSE LET ord == cmp(k, entries[i + 1].key)
             next == IF ord = "Greater" THEN entries[i + 1].gt
                                        ELSE entries[i + 1].lt
         IN  IF ord = "Equal"
             THEN [panicked |-> FALSE, ret |-> Some(entries[i + 1].val)]
             ELSE IF next = None
                  THEN [panicked |-> FALSE, ret |-> None]
                  ELSE get_loop(entries, k, AsUsize(next[1]))

\* The array positions the loop of InsertMap::insert and the loop of
\* InsertMap::get visit for the key k from node i, in order; both compare
\* k with the node's key and follow the same child link.  done says that
\* the loop returned (or panicked) before it had visited more nodes than
\* the store holds.
RECURSIVE descent(_, _, _, _)
descent(entries, k, i, visited) ==
    IF Len(visited) > Len(entries)
    THEN [visited |-> visited, done |-> FALSE]
    ELSE IF i >= Len(entries)
    THEN [visited |-> visited, done |-> TRUE]
    ELSE LET ord == cmp(k, entries[i + 1].key)
             next == IF ord = "Greater" THEN entries[i + 1].gt
                                        ELSE entries[i + 1].lt
         IN  IF ord = "Equal" \/ next = None
             THEN [visited |-> Append(visited, i), done |-> TRUE]
             ELSE descent(entries, k, AsUsize(next[1]), Append(visited, i))

\* get that follows the links the wrong way round.
RECURSIVE get_loop_flipped(_, _, _)
get_loop_flipped(entries, k, i) ==
    IF i >= Len(entries)
    THEN [panicked |-> TRUE, ret |-> None]
    ELSE LET ord == cmp(k, entries[i + 1].key)
             next == IF ord = "Greater" THEN entries[i + 1].lt
                                        ELSE entries[i + 1].gt
         IN  IF ord = "Equal"
             THEN [panicked |-> FALSE, ret |-> Some(entries[i + 1].val)]
             ELSE IF next = None
                  THEN [panicked |-> FALSE, ret |-> None]
                  ELSE get_loop_flipped(entries, k, AsUsize(next[1]))

get_flipped(map, k) == get_loop_flipped(map.entries, k, 0)

\* InsertMap::get
get(map, k) == get_loop(map.entries, k, 0)

-----------------------------------------------------------------------------
(* src/src/entry.rs *)

Entry(ident, local, global, item) ==
    [ident |-> ident, local |-> local, global |-> global, item |-> item]

\* Entry::ident, Entry::local_key, Entry::global_key
ident_of(e) == e.ident
local_key(e) == e.local
global_key(e) == e.global

\* DerefMut for Entry / the pub field `item`: a write of the payload.
deref_mut_write(e, v) == [e EXCEPT !.item = v]

-----------------------------------------------------------------------------
(* src/src/lib.rs *)

\* What a call returned: kind is "ok", "some", "none", or the panic
\* "capacity", "unique", "index" (index out of bounds); out holds the
\* Entries returned, other the conflicting identifier of a uniqueness panic.
Outcome(op, kind, arg, out, other) ==
    [op |-> op, kind |-> kind, arg |-> arg, out |-> out, other |-> other]

\* Registry::new
new == [items |-> << >>, table |-> [entries |-> << >>]]

\* The capacity test of Registry::add.
is_full_gt(self) == Len(self.items) > AsUsize(U16_MAX)

is_full(self) == Len(self.items) >= AsUsize(U16_MAX)

\* Vec::push as Registry::add uses it.
push_front(v, e) == << e >> \o v

push(v, e) == Append(v, e)

\* add that tests uniqueness before capacity.
add_unique_first(self, ident, item) ==
    LET global == xxh64(ident, HASH_SEED)
        local == AsU16(Len(self.items))
        ins == insert(self.table, global, local)
        tbl == [entries |-> ins.entries]
    IN  IF ins.ret # None
        THEN LET collision == AsUsize(ins.ret[1])
             IN  IF collision >= Len(self.items)
                 THEN [items |-> self.items, table |-> tbl,
                       kind |-> "index", out |-> None, other |-> None]
                 ELSE [items |-> self.items, table |-> tbl,
                       kind |-> "unique", out |-> None,
                       other |-> Some(ident_of(self.items[collision + 1]))]
        ELSE IF is_full(self)
             THEN [items |-> self.items, table |-> tbl,
                   kind |-> "capacity", out |-> None, other |-> None]
             ELSE LET pushed == push(self.items,
                                     Entry(ident, LocalKey(local),
                                           GlobalKey(global), item))
                  IN  [items |-> pushed, table |-> tbl, kind |-> "ok",
                       out |-> Some(pushed[AsUsize(local) + 1]),
                       other |-> None]

\* Registry::add.  A panic unwinds out of add with the fields as they are
\* at the panic.
add(self, ident, item) ==
    IF is_full(self)
    THEN [items |-> self.items, table |-> self.table,
          kind |-> "capacity", out |-> None, other |-> None]
    ELSE LET global == xxh64(ident, HASH_SEED)
             local == AsU16(Len(self.items))
             ins == insert(self.table, global, local)
             tbl == [entries |-> ins.entries]
         IN  IF ins.ret # None
             THEN LET collision == AsUsize(ins.ret[1])
                  IN  IF collision >= Len(self.items)
                      THEN [items |-> self.items, table |-> tbl,
                            kind |-> "index", out |-> None, other |-> None]
                      ELSE [items |-> self.items, table |-> tbl,
                            kind |-> "unique", out |-> None,
                            other |-> Some(ident_of(self.items[collision + 1]))]
             ELSE LET pushed == push(self.items,
                                     Entry(ident, LocalKey(local),
                                           GlobalKey(global), item))
                  IN  IF AsUsize(local) >= Len(pushed)
                      THEN [items |-> pushed, table |-> tbl,
                            kind |-> "index", out |-> None, other |-> None]
                      ELSE [items |-> pushed, table |-> tbl,
                            kind |-> "ok",
                            out |-> Some(pushed[AsUsize(local) + 1]),
                            other |-> None]

\* Registry::search and the lookup of Registry::search_mut: the position
\* found, or nothing, or a panic.
search(self, k) ==
    LET g == get(self.table, k.hash)
    IN  IF g.panicked THEN [kind |-> "index", idx |-> None]
        ELSE IF g.ret = None THEN [kind |-> "none", idx |-> None]
        ELSE IF AsUsize(g.ret[1]) >= Len(self.items)
             THEN [kind |-> "index", idx |-> None]
             ELSE [kind |-> "some", idx |-> Some(AsUsize(g.ret[1]))]

\* Indexing that is off by one.
index_off(self, k) ==
    IF AsUsize(k.index) + 1 >= Len(self.items)
    THEN [kind |-> "index", idx |-> None]
    ELSE [kind |-> "some", idx |-> Some(AsUsize(k.index) + 1)]

\* Index<LocalKey<I>> for Registry
index(self, k) ==
    IF AsUsize(k.index) >= Len(self.items)
    THEN [kind |-> "index", idx |-> None]
    ELSE [kind |-> "some", idx |-> Some(AsUsize(k.index))]

\* Registry::iter and Registry::iter_mut: the slice iterator yields every
\* element of items once, front to back.
iter(self) == self.items

\* The Entries a lookup hands out.
EntriesAt(its, r) == IF r.idx = None THEN None ELSE Some(its[r.idx[1] + 1])

Self == [items |-> items, table |-> table]


-----------------------------------------------------------------------------
(* src/src/key.rs: the wire format of GlobalKey *)

IntTags == {"u8", "u16", "u32", "u64"}
TextTags == {"str", "borrowed_str", "string"}

\* What a serde data format hands over: the Visitor method it calls (tag)
\* and the value it passes.
Datum(tag, val) == [tag |-> tag, val |-> val]

Ok(v) == [ok |-> TRUE, val |-> v]
Err == [ok |-> FALSE, val |-> 0]

\* The methods GlobalKeyVisitor implements.
visit_u64(v) == Ok(v)
visit_u32(v) == Ok(AsU64(v))
visit_u16(v) == Ok(AsU64(v))
visit_u8(v) == Ok(AsU64(v))
visit_string(v) == Ok(xxh64(v, HASH_SEED))

\* The methods GlobalKeyVisitor leaves to the defaults of serde's Visitor
\* trait: visit_str rejects the input as an invalid type, and
\* visit_borrowed_str forwards to visit_str.
visit_str(v) == Err
visit_borrowed_str(v) == visit_str(v)

\* deserializer.deserialize_any(GlobalKeyVisitor): the format calls the
\* method that matches what it read.
deserialize_any(d) ==
    CASE d.tag = "u64" -> visit_u64(d.val)
      [] d.tag = "u32" -> visit_u32(d.val)
      [] d.tag = "u16" -> visit_u16(d.val)
      [] d.tag = "u8" -> visit_u8(d.val)
      [] d.tag = "string" -> visit_string(d.val)
      [] d.tag = "str" -> visit_str(d.val)
      [] d.tag = "borrowed_str" -> visit_borrowed_str(d.val)

\* Deserialize for GlobalKey
deserialize(d) ==
    LET r == deserialize_any(d)
    IN  IF r.ok THEN Ok(GlobalKey(r.val)) ELSE Err

\* Serialize for GlobalKey: serializer.serialize_u64(self.hash)
serialize(k) == Datum("u64", k.hash)

\* The largest value of each unsigned width.
MaxOf(tag) ==
    CASE tag = "u8" -> U8Mod - 1
      [] tag = "u16" -> U16Mod - 1
      [] tag = "u32" -> U32Mod - 1
      [] tag = "u64" -> U64Mod - 1

\* The ways a self-describing format may deliver the unsigned integer v.
Deliveries(v) == {Datum(t, v) : t \in {t \in IntTags : v <= MaxOf(t)}}

\* Integers a data file may hold: the edges of every width.
DataInts == {0, U8Mod - 1, U8Mod, U16Mod - 1, U16Mod, U32Mod - 1, U32Mod,
             U64Mod - 1}

-----------------------------------------------------------------------------
(* State machine *)

Init ==
    /\ items = new.items
    /\ table = new.table
    /\ result = Outcome("new", "ok", 0, None, None)
    /\ handed = << >>
    /\ key = None
    /\ wire = None
    /\ inserted = << >>

\* The GlobalKeys a caller searches with: of every identifier, and of two
\* integers read from data.
SearchKeys == {GlobalKey_new(i) : i \in Idents} \cup {GlobalKey(0), GlobalKey(U64Mod - 1)}

\* The caller's record after it wrote the payloads of the Entries es, which
\* it tells apart by ident().
Noted(h, es) ==
    [i \in 1 .. Len(h) |->
        IF \E j \in 1 .. Len(es) : ident_of(es[j]) = h[i].ident
        THEN [h[i] EXCEPT !.item =
                 es[CHOOSE j \in 1 .. Len(es) : ident_of(es[j]) = h[i].ident].item]
        ELSE h[i]]

\* reg.add(ident, item)
Add ==
    \E ident \in Idents, item \in Item :
        LET r == add(Self, ident, item)
        IN  /\ items' = r.items
            /\ table' = r.table
            /\ result' = Outcome("add", r.kind, ident, r.out, r.other)
            /\ handed' = IF r.kind = "ok" THEN handed \o r.out ELSE handed
            /\ UNCHANGED <<key, wire, inserted>>

\* reg.search(k)
Search ==
    \E k \in SearchKeys :
        LET r == search(Self, k)
        IN  /\ result' = Outcome("search", r.kind, k.hash, EntriesAt(items, r), None)
            /\ UNCHANGED <<items, table, handed, key, wire, inserted>>

\* reg.search_mut(k), then a write of the payload through the reference.
SearchMut ==
    \E k \in SearchKeys, v \in Item :
        LET r == search(Self, k)
            written == IF r.kind = "some"
                       THEN [items EXCEPT ![r.idx[1] + 1] = deref_mut_write(@, v)]
                       ELSE items
        IN  /\ items' = written
            /\ result' = Outcome("search_mut", r.kind, k.hash, EntriesAt(written, r), None)
            /\ handed' = Noted(handed, EntriesAt(written, r))
            /\ UNCHANGED <<table, key, wire, inserted>>

\* The LocalKeys a caller can hold: local_key() of an Entry of this Registry.
LocalKeys == {local_key(items[i]) : i \in 1 .. Len(items)}

\* &reg[k]
Index ==
    \E k \in LocalKeys :
        LET r == index(Self, k)
        IN  /\ result' = Outcome("index", r.kind, k.index, EntriesAt(items, r), None)
            /\ UNCHANGED <<items, table, handed, key, wire, inserted>>

\* &mut reg[k], then a write of the payload through the reference.
IndexMut ==
    \E k \in LocalKeys, v \in Item :
        LET r == index(Self, k)
            written == IF r.kind = "some"
                       THEN [items EXCEPT ![r.idx[1] + 1] = deref_mut_write(@, v)]
                       ELSE items
        IN  /\ items' = written
            /\ result' = Outcome("index_mut", r.kind, k.index, EntriesAt(written, r), None)
            /\ handed' = Noted(handed, EntriesAt(written, r))
            /\ UNCHANGED <<table, key, wire, inserted>>

\* reg.iter(), run to its end.
Iter ==
    /\ result' = Outcome("iter", "ok", 0, iter(Self), None)
    /\ UNCHANGED <<items, table, handed, key, wire, inserted>>

\* reg.iter_mut(), run to its end with a write of the payload of every
\* Entry it yields.
IterMut ==
    \E vs \in [1 .. Len(items) -> Item] :
        LET written == [i \in 1 .. Len(items) |-> deref_mut_write(iter(Self)[i], vs[i])]
        IN  /\ items' = written
            /\ result' = Outcome("iter_mut", "ok", 0, written, None)
            /\ handed' = Noted(handed, written)
            /\ UNCHANGED <<table, key, wire, inserted>>

\* reg.iter_mut() yields mutable references to two Entries that are alive
\* together; core::mem::swap on them exchanges the two Entry values whole.
EntrySwap ==
    \E i, j \in 1 .. Len(items) :
        /\ i < j
        /\ items' = [items EXCEPT ![i] = items[j], ![j] = items[i]]
        /\ result' = Outcome("swap", "ok", 0, None, None)
        /\ UNCHANGED <<table, handed, key, wire, inserted>>

\* GlobalKey::new(ident)
KeyNew ==
    \E ident \in Idents :
        /\ key' = Some(GlobalKey_new(ident))
        /\ result' = Outcome("key_new", "ok", ident, None, None)
        /\ UNCHANGED <<items, table, handed, wire, inserted>>

\* key.serialize(serializer)
Serialize ==
    /\ key # None
    /\ wire' = Some(serialize(key[1]))
    /\ result' = Outcome("serialize", "ok", key[1], None, None)
    /\ UNCHANGED <<items, table, handed, key, inserted>>

\* What Deserialize leaves with the caller: Ok(key) or the error.
KeyOf(r) == IF r.ok THEN Some(r.val) ELSE None
KindOf(r) == IF r.ok THEN "ok" ELSE "err"

\* GlobalKey::deserialize of the integer last serialized, delivered at
\* any width that holds it.
DeserializeWire ==
    /\ wire # None
    /\ \E d \in Deliveries(wire[1].val) :
           /\ key' = KeyOf(deserialize(d))
           /\ result' = Outcome("deserialize_wire", KindOf(deserialize(d)), d, None, None)
    /\ UNCHANGED <<items, table, handed, wire, inserted>>

\* GlobalKey::deserialize of an integer of a data file.
DeserializeInt ==
    /\ \E v \in DataInts : \E d \in Deliveries(v) :
           /\ key' = KeyOf(deserialize(d))
           /\ result' = Outcome("deserialize_int", KindOf(deserialize(d)), d, None, None)
    /\ UNCHANGED <<items, table, handed, wire, inserted>>

\* GlobalKey::deserialize of an identifier written as text.
DeserializeText ==
    /\ \E ident \in Idents, t \in TextTags :
           LET d == Datum(t, ident)
           IN  /\ key' = KeyOf(deserialize(d))
               /\ result' = Outcome("deserialize_text", KindOf(deserialize(d)), d, None, None)
    /\ UNCHANGED <<items, table, handed, wire, inserted>>

\* The keys and slot values given to an InsertMap used on its own, and the
\* keys it is asked for.
MapKeys == {AsU64(i * 37) : i \in 1 .. NumKeys}
MapVals == {0, U16_MAX}
ProbeKeys == MapKeys \cup {0, U64Mod - 1}

\* map.insert(k, v)
MapInsert ==
    \E k \in MapKeys, v \in MapVals :
        LET r == insert(table, k, v)
        IN  /\ table' = [entries |-> r.entries]
            /\ result' = Outcome("map_insert", IF r.ret = None THEN "none" ELSE "some",
                                  [key |-> k, val |-> v], r.ret, None)
            /\ inserted' = IF r.ret = None
                            THEN Append(inserted, [key |-> k, val |-> v])
                            ELSE inserted
            /\ UNCHANGED <<items, handed, key, wire>>

\* map.get(k)
MapGet ==
    \E k \in ProbeKeys :
        LET r == get(table, k)
        IN  /\ result' = Outcome("map_get",
                                  IF r.panicked THEN "index"
                                  ELSE IF r.ret = None THEN "none" ELSE "some",
                                  k, r.ret, None)
            /\ UNCHANGED <<items, table, handed, key, wire, inserted>>

\* The operations of the Registry.
Next == Add \/ Search \/ SearchMut \/ Index \/ IndexMut \/ Iter \/ IterMut

Spec == Init /\ [][Next]_vars

\* A registry that is only populated and searched.
NextAdd == Add \/ Search

SpecAdd == Init /\ [][NextAdd]_vars

\* The operations of the Registry, and whole-value writes through the
\* mutable references it hands out.
NextRefs == Next \/ EntrySwap

SpecRefs == Init /\ [][NextRefs]_vars

\* GlobalKeys made, serialized and deserialized.
NextKey == KeyNew \/ Serialize \/ DeserializeWire \/ DeserializeInt \/ DeserializeText

SpecKey == Init /\ [][NextKey]_vars

\* An InsertMap used on its own.
NextMap == MapInsert \/ MapGet

SpecMap == Init /\ [][NextMap]_vars

-----------------------------------------------------------------------------
(* Properties *)

\* The hash Registry::add computes for an identifier.
HashOf(ident) == xxh64(ident, HASH_SEED)

\* The positions of items whose stored hash is that of ident.
Holders(its, ident) == {i \in 1 .. Len(its) : global_key(its[i]).hash = HashOf(ident)}

\* C1: after any sequence of add calls on an empty registry, search with
\* the GlobalKey computed from an inserted identifier returns the Entry with
\* that identifier and with the payload passed to that add.
C1_SearchGlobal ==
    \A i \in 1 .. Len(handed) :
        LET r == search(Self, GlobalKey_new(handed[i].ident))
        IN  /\ r.kind = "some"
            /\ ident_of(items[r.idx[1] + 1]) = handed[i].ident
            /\ items[r.idx[1] + 1].item = handed[i].item

\* A search found the third Entry added, which is not the root of the store.
C1_Witness ==
    /\ result.op = "search"
    /\ result.kind = "some"
    /\ Len(handed) >= 3
    /\ ident_of(result.out[1]) = handed[3].ident

C3_FailedAddUnchanged ==
    [][(result'.op = "add" /\ Holders(items, result'.arg) # {})
         => /\ result'.kind \in {"unique", "capacity"}
            /\ items' = items
            /\ table' = table]_vars

\* An add of an identifier that is present failed on a registry of two
\* entries or more.
C3_Witness ==
    /\ result.op = "add"
    /\ result.kind = "unique"
    /\ Len(items) >= 2
    /\ \E i \in 1 .. Len(items) : ident_of(items[i]) = result.arg

\* C4: the entry count never exceeds u16::MAX; an add on a registry of
\* u16::MAX entries is rejected for capacity, and an add of a fresh hash on
\* a smaller registry is not.
C4_Capacity ==
    [][/\ Len(items') <= U16Mod - 1
       /\ result'.op = "add"
            => /\ Len(items) >= U16Mod - 1 => result'.kind = "capacity"
               /\ (Len(items) < U16Mod - 1 /\ Holders(items, result'.arg) = {})
                    => result'.kind = "ok"]_vars

\* An add of a fresh hash was rejected for capacity.
C4_Witness ==
    /\ result.op = "add"
    /\ result.kind = "capacity"
    /\ Holders(items, result.arg) = {}

\* C5: the entries have pairwise distinct identifiers and pairwise distinct
\* hashes, and an add of a new identifier whose hash is taken is rejected
\* like an add of the identifier that holds the hash.
C5_Unique ==
    [][/\ \A i, j \in 1 .. Len(items') :
            i # j => /\ ident_of(items'[i]) # ident_of(items'[j])
                     /\ global_key(items'[i]).hash # global_key(items'[j]).hash
       /\ (result'.op = "add" /\ Len(items) < U16Mod - 1)
            => \A i \in Holders(items, result'.arg) :
                 result' = Outcome("add", "unique", result'.arg, None,
                                   Some(ident_of(items[i])))]_vars

\* An add of a new identifier was rejected for the hash of another.
C5_Witness ==
    /\ result.op = "add"
    /\ result.kind = "unique"
    /\ result.other # Some(result.arg)

\* C6: on an empty Index Node Store insert reports no collision, and
\* search and search_mut return nothing for every GlobalKey.
C6_EmptyStore ==
    Len(table.entries) = 0
        => /\ \A k \in SearchKeys : insert(table, k.hash, 0).ret = None
           /\ result.op \in {"search", "search_mut"} => result.kind = "none"

C8_IterInsertionOrder ==
    /\ iter(Self) = handed
    /\ result.op \in {"iter", "iter_mut"} => result.out = handed

\* An iteration yielded three entries.
C8_Witness ==
    /\ result.op \in {"iter", "iter_mut"}
    /\ Len(result.out) >= 3

\* C9: no operation changes the ident, LocalKey or GlobalKey of an existing
\* Entry or the position it occupies, and a write of a payload leaves the
\* Index Node Store as it was.
C9_IdentityFrame ==
    [][/\ \A i \in 1 .. Len(items) :
            /\ i <= Len(items')
            /\ ident_of(items'[i]) = ident_of(items[i])
            /\ local_key(items'[i]) = local_key(items[i])
            /\ global_key(items'[i]) = global_key(items[i])
       /\ result'.op # "add" => table' = table]_vars

\* C10: a GlobalKey serializes as its raw hash; that integer, delivered at
\* any unsigned width that holds it, deserializes to an equal GlobalKey; and
\* the identifier as text deserializes to GlobalKey::new(ident).
C10_RoundTrip ==
    /\ result.op = "serialize"
         => wire = Some(Datum("u64", result.arg.hash))
    /\ result.op = "deserialize_wire"
         => /\ result.kind = "ok"
            /\ key = Some(GlobalKey(wire[1].val))
    /\ result.op = "deserialize_text"
         => /\ result.kind = "ok"
            /\ key = Some(GlobalKey_new(result.arg.val))

\* The parts of C10 about integers.
C10_Integers ==
    /\ result.op = "serialize"
         => wire = Some(Datum("u64", result.arg.hash))
    /\ result.op = "deserialize_wire"
         => /\ result.kind = "ok"
            /\ key = Some(GlobalKey(wire[1].val))
    /\ (result.op = "deserialize_text" /\ result.arg.tag = "string")
         => /\ result.kind = "ok"
            /\ key = Some(GlobalKey_new(result.arg.val))

\* The positions of the nodes of a store that hold the key k.
NodesOf(entries, k) == {i \in 1 .. Len(entries) : entries[i].key = k}

\* C11: an insert that reaches a node with an equal key returns that node's
\* stored val and leaves the store as it was, whatever slot values earlier
\* inserts stored.
C11_InsertReturnsVal ==
    (result.op = "map_insert" /\ result.kind = "some")
        => /\ \A i \in NodesOf(table.entries, result.arg.key) :
                result.out = Some(table.entries[i].val)
           /\ Len(table.entries) = Len(inserted)
           /\ \A i \in 1 .. Len(inserted) :
                /\ table.entries[i].key = inserted[i].key
                /\ table.entries[i].val = inserted[i].val

\* The keys of the inserts that returned None.
InsertedKeys == {inserted[i].key : i \in 1 .. Len(inserted)}

\* C12: after n >= 1 successful inserts of n distinct keys with arbitrary
\* slot values, in any order, get returns the value inserted with each of
\* those keys and nothing for every other key.
C12_GetAfterInserts ==
    Len(inserted) >= 1
        => /\ \A i \in 1 .. Len(inserted) :
                get(table, inserted[i].key)
                    = [panicked |-> FALSE, ret |-> Some(inserted[i].val)]
           /\ \A k \in ProbeKeys \ InsertedKeys :
                get(table, k) = [panicked |-> FALSE, ret |-> None]
           /\ result.op = "map_get"
                => \/ /\ result.arg \notin InsertedKeys
                      /\ result.kind = "none"
                      /\ result.out = None
                   \/ /\ result.kind = "some"
                      /\ \E i \in 1 .. Len(inserted) :
                            /\ inserted[i].key = result.arg
                            /\ result.out = Some(inserted[i].val)

\* A get found the third key inserted, whose slot value is not its position.
C12_Witness ==
    /\ result.op = "map_get"
    /\ result.kind = "some"
    /\ Len(inserted) >= 3
    /\ result.arg = inserted[3].key
    /\ result.out # Some(2)

\* C13: on a registry of u16::MAX entries add reports the capacity error
\* whether or not the identifier is a duplicate, and leaves the entries and
\* the Index Node Store as they were.
C13_CapacityFirst ==
    [][(result'.op = "add" /\ Len(items) >= U16Mod - 1)
         => /\ result'.kind = "capacity"
            /\ items' = items
            /\ table' = table]_vars

\* An add of an identifier that is present was rejected for capacity.
C13_Witness ==
    /\ result.op = "add"
    /\ result.kind = "capacity"
    /\ \E i \in 1 .. Len(items) : ident_of(items[i]) = result.arg

\* The child links of node i (from 1) that are set.
LinksOf(entries, i) ==
    {entries[i].gt[j] : j \in 1 .. Len(entries[i].gt)}
        \cup {entries[i].lt[j] : j \in 1 .. Len(entries[i].lt)}

\* C14: every insert and get call ends after visiting at most as many nodes
\* as the store holds: every child link leads to a strictly larger array
\* position inside the store, and the positions a descent visits ascend.
C14_DescentBounded ==
    /\ \A i \in 1 .. Len(table.entries) :
         \A t \in LinksOf(table.entries, i) :
            i - 1 < t /\ t < Len(table.entries)
    /\ \A k \in ProbeKeys :
         LET d == descent(table.entries, k, 0, << >>)
         IN  /\ d.done
             /\ Len(d.visited) <= Len(table.entries)
             /\ \A a, b \in 1 .. Len(d.visited) :
                    a < b => d.visited[a] < d.visited[b]

\* A get visited three nodes.
C14_Witness ==
    /\ result.op = "map_get"
    /\ Len(descent(table.entries, result.arg, 0, << >>).visited) >= 3

\* The child links of a store that are set, as <<node, side, target>>.
SetLinks(entries) ==
    {<<i, "gt", entries[i].gt[1]>> : i \in {j \in 1 .. Len(entries) : entries[j].gt # None}}
        \cup {<<i, "lt", entries[i].lt[1]>> : i \in {j \in 1 .. Len(entries) : entries[j].lt # None}}

\* C15: the store is append-only: position 0 holds the first inserted key,
\* the key and val of a node never change, a child link never changes once
\* set, a colliding insert changes nothing, and a successful insert into a
\* store that is not empty appends one node at the old length and sets one
\* link that was empty to that position.
C15_AppendOnly ==
    [][LET before == table.entries
           after == table'.entries
       IN  /\ Len(after) >= Len(before)
           /\ \A i \in 1 .. Len(before) :
                /\ after[i].key = before[i].key
                /\ after[i].val = before[i].val
           /\ SetLinks(before) \subseteq SetLinks(after)
           /\ Len(inserted') >= 1 => after[1].key = inserted'[1].key
           /\ (result'.op = "map_insert" /\ result'.kind = "some") => after = before
           /\ (result'.op = "map_insert" /\ result'.kind = "none" /\ Len(before) >= 1)
                => /\ Len(after) = Len(before) + 1
                   /\ after[Len(after)] = Node(result'.arg.key, result'.arg.val)
                   /\ \E l \in SetLinks(after) :
                        /\ SetLinks(after) = SetLinks(before) \cup {l}
                        /\ l \notin SetLinks(before)
                        /\ l[1] <= Len(before)
                        /\ l[3] = Len(before)]_vars

\* A successful insert appended the third node.
C15_Witness ==
    /\ result.op = "map_insert"
    /\ result.kind = "none"
    /\ Len(table.entries) = 3
    /\ Cardinality(SetLinks(table.entries)) = 2

\* C16: after any add calls, successful or failed, the Index Node Store and
\* the entries are in lockstep: they have the same length, and the node at
\* position i has val i and the hash of the entry at position i as its key.
C16_Lockstep ==
    /\ Len(table.entries) = Len(items)
    /\ \A i \in 1 .. Len(items) :
         /\ i <= Len(table.entries)
         /\ table.entries[i].val = i - 1
         /\ table.entries[i].key = global_key(items[i]).hash

\* An add failed for uniqueness on a registry of two entries.
C16_Witness ==
    /\ result.op = "add"
    /\ result.kind = "unique"
    /\ Len(items) = 2
    /\ Len(table.entries) = 2

\* The positions (from 0) of the nodes reachable from the child link l, the
\* node it points to included, following at most fuel links.
RECURSIVE Below(_, _, _)
Below(entries, l, fuel) ==
    IF l = None \/ fuel = 0 THEN {}
    ELSE IF l[1] >= Len(entries) THEN {l[1]}
    ELSE {l[1]} \cup Below(entries, entries[l[1] + 1].gt, fuel - 1)
                \cup Below(entries, entries[l[1] + 1].lt, fuel - 1)

\* C17: the store is a well-formed binary search tree: every node but the
\* root is the target of exactly one child link, the root of none, and for
\* every node the keys reachable through its 'less' link are smaller and
\* the keys reachable through its 'greater' link are larger than its key.
C17_SearchTree ==
    LET entries == table.entries
        n == Len(entries)
    IN  /\ \A j \in 1 .. n - 1 :
             Cardinality({l \in SetLinks(entries) : l[3] = j}) = 1
        /\ \A l \in SetLinks(entries) : l[3] >= 1 /\ l[3] < n
        /\ \A i \in 1 .. n :
             /\ \A j \in Below(entries, entries[i].lt, n) :
                    j < n /\ entries[j + 1].key < entries[i].key
             /\ \A j \in Below(entries, entries[i].gt, n) :
                    j < n /\ entries[j + 1].key > entries[i].key

\* A store of four nodes whose root has both children and a grandchild.
C17_Witness ==
    /\ Len(table.entries) >= 4
    /\ table.entries[1].gt # None
    /\ table.entries[1].lt # None
    /\ Cardinality(Below(table.entries, table.entries[1].gt, 4)) >= 2

\* The orders in which n pairs can be added.
Orders(n) == {p \in [1 .. n -> 1 .. n] : \A i, j \in 1 .. n : i # j => p[i] # p[j]}

\* The registry after reg.add(ident, item) for the Entries es[i], es[i+1],
\* ... in turn.
RECURSIVE Populate(_, _, _)
Populate(reg, es, i) ==
    IF i > Len(es) THEN reg
    ELSE LET r == add(reg, ident_of(es[i]), es[i].item)
         IN  Populate([items |-> r.items, table |-> r.table], es, i + 1)

\* A registry populated with the (identifier, payload) pairs of items in
\* the order p.
Reordered(p) == Populate(new, [i \in 1 .. Len(items) |-> items[p[i]]], 1)

\* What reg.search(k) shows of the entry it returns, LocalKey left out.
Found(reg, k) ==
    LET r == search(reg, k)
    IN  [kind |-> r.kind,
         found |-> IF r.idx = None THEN None
                   ELSE Some([ident |-> ident_of(reg.items[r.idx[1] + 1]),
                              global |-> global_key(reg.items[r.idx[1] + 1]),
                              item |-> reg.items[r.idx[1] + 1].item])]

\* C18: GlobalKey lookups are independent of insertion order: a registry
\* populated with the same (identifier, payload) pairs in any other order
\* answers search with the same GlobalKey by an entry of the same ident and
\* payload, or by nothing in both.
C18_OrderIndependent ==
    \A p \in Orders(Len(items)) :
        /\ {[ident |-> ident_of(e), item |-> e.item] : e \in {Reordered(p).items[i] : i \in 1 .. Len(Reordered(p).items)}}
              = {[ident |-> ident_of(e), item |-> e.item] : e \in {items[i] : i \in 1 .. Len(items)}}
        /\ \A k \in SearchKeys : Found(Reordered(p), k) = Found(Self, k)

\* A search returned an entry of a registry of three entries that has
\* another LocalKey in the registry populated in another order.
C18_Witness ==
    /\ result.op = "search"
    /\ result.kind = "some"
    /\ Len(items) = 3
    /\ \E p \in Orders(Len(items)) :
          \E i \in 1 .. Len(items) :
              /\ ident_of(Reordered(p).items[i]) = ident_of(result.out[1])
              /\ Reordered(p).items[i].item = result.out[1].item
              /\ local_key(Reordered(p).items[i]) # local_key(result.out[1])

\* C19: no 16-bit narrowing in the registry loses information: every stored
\* slot value, every child link and every collision index returned by insert
\* equals the untruncated array position it stands for, and all are at most
\* u16::MAX - 1.
C19_NoNarrowingLoss ==
    LET entries == table.entries
        n == Len(entries)
    IN  /\ Len(items) <= U16_MAX
        /\ ~is_full(Self) => AsU16(Len(items)) = Len(items)
        /\ \A i \in 1 .. n :
             /\ entries[i].val = i - 1
             /\ entries[i].val <= U16_MAX - 1
             /\ AsU16(i - 1) = i - 1
        /\ \A l \in SetLinks(entries) : l[3] >= 1 /\ l[3] <= n - 1 /\ l[3] <= U16_MAX - 1
        /\ \A j \in 1 .. n - 1 : \E l \in SetLinks(entries) : l[3] = j
        /\ Cardinality(SetLinks(entries)) = IF n = 0 THEN 0 ELSE n - 1
        /\ \A ident \in Idents :
             LET r == insert(table, HashOf(ident), AsU16(Len(items)))
             IN  r.ret # None =>
                    /\ r.ret[1] <= U16_MAX - 1
                    /\ Holders(items, ident) = {r.ret[1] + 1}

\* An add filled the registry: the last node holds the slot value
\* u16::MAX - 1 and a child link holds that position.
C19_Witness ==
    /\ result.op = "add"
    /\ result.kind = "ok"
    /\ Len(table.entries) = U16_MAX
    /\ table.entries[U16_MAX].val = U16_MAX - 1
    /\ \E l \in SetLinks(table.entries) : l[3] = U16_MAX - 1

=============================================================================
